---- MODULE Spec2Model ----
(***************************************************************************)
(* Model of the simulation core of Mysterious-dungeon: the turn loop of     *)
(* Game::run, movement with revert-on-collision, the combat resolver, the  *)
(* level load and the detached path-finding threads started for Orcs.      *)
(*                                                                         *)
(* The main thread is a program counter pc over the statements of          *)
(* Game::run; every detached thread is an entry of tasks with its own      *)
(* phase.  The Map, the A* engine, Entity/Orc method bodies and the        *)
(* species stat tables are not part of the sources at hand; they are       *)
(* modelled from their documented contracts.                               *)
(***************************************************************************)
EXTENDS Integers, Sequences, FiniteSets, TLC

VARIABLES
  level,      \* Game::level
  map,        \* *Game::map : [free, start, end]
  player,     \* Game::player : [pos, health, attack, exp]
  monsters,   \* Game::monsters : sequence of [id, kind, pos, health, attack, path]
  tasks,      \* detached std::thread objects still running
  pc,         \* statement of Game::run the main thread is at
  frame,      \* locals of the main thread: loop index, oldPos, fight operands
  fightInfo,  \* last line handed to Map::setFightInfo
  nextId,     \* identity (address) given to the next allocated monster
  loads,      \* number of Game::loadLevel calls made so far
  count       \* argument of the initalizeMonsters call of CountSpec

vars == <<level, map, player, monsters, tasks, pc, frame, fightInfo, nextId,
          loads, count>>

----------------------------------------------------------------------------
(* Bounds of the model                                                      *)

MaxTasks == 2
MaxLoads == 2
MaxCount == 12
MaxHealth == 3
MaxAttack == 2
CorridorLength == 8

----------------------------------------------------------------------------
(* Program constants                                                        *)

PathRefreshDistance == 8
VicinityDistance == 10
ExpAward == 10
MonsterCount == 3
PlayerRef == 0

PlayerStats == [health |-> 2, attack |-> 1]

BaseStats ==
  [Goblin |-> [health |-> 1, attack |-> 1],
   Orc    |-> [health |-> 1, attack |-> 1],
   Troll  |-> [health |-> 2, attack |-> 2],
   Dragon |-> [health |-> 2, attack |-> 2]]

Kinds == {"Goblin", "Orc", "Troll", "Dragon"}

----------------------------------------------------------------------------
(* Map collaborator                                                         *)

Maps ==
  { [free |-> {<<0,0>>, <<1,0>>, <<2,0>>},
     start |-> <<0,0>>, end |-> <<2,0>>],
    [free |-> {<<0,0>>, <<1,0>>, <<3,0>>},
     start |-> <<0,0>>, end |-> <<1,0>>] }

GridCells == {<<x, 0>> : x \in 0..3}

\* a level that is one straight corridor, the start at one end and the end
\* cell at the other
Corridor ==
  [free |-> {<<x, 0>> : x \in 0..CorridorLength},
   start |-> <<0, 0>>, end |-> <<CorridorLength, 0>>]

isPositionFree(m, p) == p \in m.free

Dist2(p, q) == (p[1] - q[1]) * (p[1] - q[1]) + (p[2] - q[2]) * (p[2] - q[2])

Sgn(n) == IF n > 0 THEN 1 ELSE IF n < 0 THEN -1 ELSE 0

areEntitiesInVicinity(p, q, d) == Dist2(p, q) <= d * d

----------------------------------------------------------------------------
(* A* engine: a shortest 4-directional route, start excluded, goal          *)
(* included; NoPath when the goal cannot be reached.                        *)

NoPath == <<"no path">>

NeighbourOrder(p) ==
  << <<p[1], p[2] - 1>>, <<p[1] + 1, p[2]>>, <<p[1], p[2] + 1>>, <<p[1] - 1, p[2]>> >>

Neighbours(p) == {NeighbourOrder(p)[i] : i \in 1..4}

RECURSIVE Layers(_, _, _)
Layers(ls, seen, free) ==
  LET last == ls[Len(ls)]
      nxt  == (UNION {Neighbours(c) : c \in last} \cap free) \ seen
  IN  IF nxt = {} THEN ls ELSE Layers(Append(ls, nxt), seen \cup nxt, free)

GoalLayers(m, goal) ==
  IF goal \in m.free THEN Layers(<<{goal}>>, {goal}, m.free) ELSE <<>>

LayerOf(ls, c) ==
  IF \E i \in 1..Len(ls) : c \in ls[i]
  THEN CHOOSE i \in 1..Len(ls) : c \in ls[i]
  ELSE 0

RECURSIVE Descend(_, _, _)
Descend(ls, c, goal) ==
  IF c = goal THEN <<>>
  ELSE LET ord  == NeighbourOrder(c)
           here == LayerOf(ls, c)
           good == {i \in 1..4 : LayerOf(ls, ord[i]) > 0
                                 /\ (here = 0 \/ LayerOf(ls, ord[i]) < here)}
           best == CHOOSE i \in good :
                     \A j \in good :
                        \/ LayerOf(ls, ord[i]) < LayerOf(ls, ord[j])
                        \/ (LayerOf(ls, ord[i]) = LayerOf(ls, ord[j]) /\ i <= j)
       IN  <<ord[best]>> \o Descend(ls, ord[best], goal)

Search(m, start, goal) ==
  LET ls == GoalLayers(m, goal)
  IN  IF start = goal THEN <<>>
      ELSE IF ls = <<>> THEN NoPath
      ELSE IF LayerOf(ls, start) = 0
              /\ \A n \in Neighbours(start) : LayerOf(ls, n) = 0 THEN NoPath
      ELSE Descend(ls, start, goal)

\* every cell an entity can be read at: the grid and the cells one step off it
Reach == {<<x, y>> : x \in -1..(CorridorLength + 1), y \in -1..1}

Routes == [m \in Maps \cup {Corridor} |-> [sg \in Reach \X Reach |-> Search(m, sg[1], sg[2])]]

\* AStar(map, start, goal).getPath()
AStar(m, start, goal) == Routes[m][<<start, goal>>]

----------------------------------------------------------------------------
(* Entity model                                                             *)

isAlive(e) == e.health > 0

takeDamage(e, damage) == [e EXCEPT !.health = @ - damage]

EntityMove(e, dx, dy) == [e EXCEPT !.pos = <<@[1] + dx, @[2] + dy>>]

OrcMove(e, dx, dy) ==
  IF e.path # <<>>
  THEN [e EXCEPT !.pos = Head(e.path), !.path = Tail(e.path)]
  ELSE EntityMove(e, dx, dy)

Move(e, dx, dy) == IF e.kind = "Orc" THEN OrcMove(e, dx, dy) ELSE EntityMove(e, dx, dy)

NewMonster(id, kind, pos) ==
  [id |-> id, kind |-> kind, pos |-> pos,
   health |-> BaseStats[kind].health, attack |-> BaseStats[kind].attack,
   path |-> <<>>]

RosterIds == {monsters[i].id : i \in 1..Len(monsters)}

InRoster(id) == id \in RosterIds

IndexOf(id) == CHOOSE i \in 1..Len(monsters) : monsters[i].id = id

----------------------------------------------------------------------------
(* Game::initalizeMonsters                                                  *)

RECURSIVE createMonster(_, _, _, _, _)
createMonster(ms, n, kind, ps, id) ==
  IF n <= 0 THEN ms
  ELSE createMonster(Append(ms, NewMonster(id, kind, ps[Len(ms) + 1])),
                     n - 1, kind, ps, id + 1)

initalizeMonstersRoundedUp(c, ps, id) ==
  LET goblinsCount == c \div 2
      orcsCount    == (c + 2) \div 3
      trollsCount  == c \div 6
      dragonsCount == c - goblinsCount - orcsCount - trollsCount
      g == createMonster(<<>>, goblinsCount, "Goblin", ps, id)
      o == createMonster(g, orcsCount, "Orc", ps, id + Len(g))
      t == createMonster(o, trollsCount, "Troll", ps, id + Len(o))
  IN  createMonster(t, dragonsCount, "Dragon", ps, id + Len(t))

initalizeMonsters(c, ps, id) ==
  LET goblinsCount == c \div 2
      orcsCount    == c \div 3
      trollsCount  == c \div 6
      dragonsCount == c - goblinsCount - orcsCount - trollsCount
      g == createMonster(<<>>, goblinsCount, "Goblin", ps, id)
      o == createMonster(g, orcsCount, "Orc", ps, id + Len(g))
      t == createMonster(o, trollsCount, "Troll", ps, id + Len(o))
  IN  createMonster(t, dragonsCount, "Dragon", ps, id + Len(t))

\* GameSettings::monsterCount + pow(2, level - 1), converted to int
LevelMonsterCount(lv) == MonsterCount + (IF lv >= 1 THEN 2 ^ (lv - 1) ELSE 0)

----------------------------------------------------------------------------
(* Main thread                                                              *)

NoPoint == <<-1, -1>>
NoFrame == [idx |-> 0, ent |-> -1, oldPos |-> NoPoint, att |-> -1, def |-> -1,
            ret |-> "none"]
NoInfo  == [subject |-> "nobody", alive |-> FALSE, dangling |-> FALSE]

Keys == {"q", "up", "down", "left", "right", "space", "none"}

KeyDelta(k) ==
  CASE k = "up"    -> <<0, -1>>
    [] k = "down"  -> <<0, 1>>
    [] k = "left"  -> <<-1, 0>>
    [] k = "right" -> <<1, 0>>

Entity(ref) == IF ref = PlayerRef THEN player ELSE monsters[IndexOf(ref)]

\* Game::loadLevel
loadLevel ==
  /\ \E m \in Maps :
       \E ps \in [1..LevelMonsterCount(level) -> m.free] :
         /\ map' = m
         /\ player' = [player EXCEPT !.pos = m.start]
         /\ monsters' = initalizeMonsters(LevelMonsterCount(level), ps, nextId)
         /\ nextId' = nextId + LevelMonsterCount(level)
  /\ loads' = loads + 1
  /\ UNCHANGED level

\* Game::init, called first by Game::run
RunInit ==
  /\ pc = "init"
  /\ loadLevel
  /\ pc' = "input"
  /\ UNCHANGED <<tasks, frame, fightInfo, count>>

\* the spawn condition with the threshold itself counted as near
NeedsPathInclusive(e) ==
  /\ e.kind = "Orc"
  /\ (e.path = <<>> \/ Dist2(e.pos, player.pos) <= PathRefreshDistance * PathRefreshDistance)

\* the spawn condition of Game::updateEntityPosition
NeedsPath(e) ==
  /\ e.kind = "Orc"
  /\ (e.path = <<>> \/ Dist2(e.pos, player.pos) < PathRefreshDistance * PathRefreshDistance)

NewTask(e) ==
  [orc |-> e.id, stale |-> FALSE, phase |-> "spawned",
   snapStart |-> e.pos, snapGoal |-> player.pos, path |-> <<>>]

Supersede(ts, id) ==
  [i \in 1..Len(ts) |-> IF ts[i].orc = id THEN [ts[i] EXCEPT !.stale = TRUE] ELSE ts[i]]

\* std::thread t(...); t.detach();
SpawnTask(e) ==
  IF NeedsPath(e)
  THEN /\ Len(tasks) < MaxTasks
       /\ tasks' = Append(Supersede(tasks, e.id), NewTask(e))
  ELSE UNCHANGED tasks

\* Game::handleInput
HandleInputQuit ==
  /\ pc = "input"
  /\ pc' = "exited"
  /\ UNCHANGED <<level, map, player, monsters, tasks, frame, fightInfo, nextId,
                 loads, count>>

HandleInputMove(k) ==
  /\ pc = "input"
  /\ k \in {"up", "down", "left", "right"}
  /\ player' = EntityMove(player, KeyDelta(k)[1], KeyDelta(k)[2])
  /\ frame' = [NoFrame EXCEPT !.ent = PlayerRef, !.oldPos = player.pos]
  /\ pc' = "uep"
  /\ UNCHANGED <<level, map, monsters, tasks, fightInfo, nextId, loads, count>>

HandleInputAttack ==
  /\ pc = "input"
  /\ LET here == {i \in 1..Len(monsters) : monsters[i].pos = player.pos}
     IN  IF here = {}
         THEN /\ pc' = "monsters"
              /\ frame' = [NoFrame EXCEPT !.idx = 1]
         ELSE LET i == CHOOSE j \in here : \A l \in here : j <= l
              IN  /\ pc' = "fight"
                  /\ frame' = [NoFrame EXCEPT !.att = PlayerRef,
                                              !.def = monsters[i].id,
                                              !.ret = "monsters"]
  /\ UNCHANGED <<level, map, player, monsters, tasks, fightInfo, nextId, loads, count>>

HandleInputNone ==
  /\ pc = "input"
  /\ pc' = "monsters"
  /\ frame' = [NoFrame EXCEPT !.idx = 1]
  /\ UNCHANGED <<level, map, player, monsters, tasks, fightInfo, nextId, loads, count>>

\* Game::updatePositions, one iteration of the range-for up to the move
\* inside updateEntityPosition
MonsterStep ==
  /\ pc = "monsters"
  /\ frame.idx <= Len(monsters)
  /\ LET m   == monsters[frame.idx]
         vic == areEntitiesInVicinity(player.pos, m.pos, VicinityDistance)
         dx  == IF vic THEN Sgn(player.pos[1] - m.pos[1]) ELSE 1
         dy  == IF vic THEN Sgn(player.pos[2] - m.pos[2]) ELSE 1
     IN  /\ SpawnTask(m)
         /\ monsters' = [monsters EXCEPT ![frame.idx] = Move(m, dx, dy)]
         /\ frame' = [frame EXCEPT !.ent = m.id, !.oldPos = m.pos]
  /\ pc' = "uep"
  /\ UNCHANGED <<level, map, player, fightInfo, nextId, loads, count>>

MonstersDone ==
  /\ pc = "monsters"
  /\ frame.idx > Len(monsters)
  /\ pc' = "levelCheck"
  /\ frame' = NoFrame
  /\ UNCHANGED <<level, map, player, monsters, tasks, fightInfo, nextId, loads, count>>

\* if (!map->isPositionFree(entity.getPosition())) entity.setPosition(oldPos);
SettleKeepMove(m, moved, oldPos) == moved

\* the revert with its test the wrong way round
SettleInverted(m, moved, oldPos) == IF isPositionFree(m, moved) THEN oldPos ELSE moved

Settle(m, moved, oldPos) == IF isPositionFree(m, moved) THEN moved ELSE oldPos

\* Game::updateEntityPosition from the isPositionFree test on, and what its
\* caller does next
CheckMove ==
  /\ pc = "uep"
  /\ IF frame.ent = PlayerRef
     THEN /\ player' = [player EXCEPT !.pos = Settle(map, @, frame.oldPos)]
          /\ pc' = "monsters"
          /\ frame' = [NoFrame EXCEPT !.idx = 1]
          /\ UNCHANGED monsters
     ELSE LET i == frame.idx
              p == Settle(map, monsters[i].pos, frame.oldPos)
          IN  /\ monsters' = [monsters EXCEPT ![i].pos = p]
              /\ IF player.pos = p
                 THEN /\ pc' = "fight"
                      /\ frame' = [NoFrame EXCEPT !.att = monsters[i].id,
                                                  !.def = PlayerRef,
                                                  !.ret = "levelCheck"]
                 ELSE /\ pc' = "monsters"
                      /\ frame' = [NoFrame EXCEPT !.idx = i + 1]
              /\ UNCHANGED player
  /\ UNCHANGED <<level, map, tasks, fightInfo, nextId, loads, count>>

----------------------------------------------------------------------------
(* Game::fight                                                              *)

FightMonster == IF frame.att = PlayerRef THEN frame.def ELSE frame.att

\* the condition of the exchange loop
FightContinuesOffByOne ==
  isAlive(Entity(frame.att)) /\ Entity(frame.def).health > 1

FightContinues == isAlive(Entity(frame.att)) /\ isAlive(Entity(frame.def))

\* the combatants handed over by value: the damage is done to copies
FightRoundOnCopies(hitA, hitD) ==
  /\ pc = "fight"
  /\ FightContinues
  /\ UNCHANGED vars

\* one pass through the body of the exchange loop; hitA and hitD are the
\* outcomes of the two rand() % 3 != 0 tests
FightRound(hitA, hitD) ==
  /\ pc = "fight"
  /\ FightContinues
  /\ LET a  == Entity(frame.att)
         d  == Entity(frame.def)
         d1 == IF hitA THEN takeDamage(d, a.attack) ELSE d
         a1 == IF hitD THEN takeDamage(a, d1.attack) ELSE a
     IN  /\ player' = IF frame.att = PlayerRef THEN a1 ELSE d1
         /\ monsters' = [monsters EXCEPT ![IndexOf(FightMonster)] =
                           IF frame.att = PlayerRef THEN d1 ELSE a1]
  /\ UNCHANGED <<level, map, tasks, pc, frame, fightInfo, nextId, loads, count>>

\* a gameOver that returns to fight, and a fight that then goes on
FightLostGoesOn ==
  /\ pc = "fight"
  /\ ~FightContinues
  /\ ~isAlive(player)
  /\ player' = [player EXCEPT !.exp = @ + ExpAward]
  /\ monsters' = SelectSeq(monsters, isAlive)
  /\ pc' = frame.ret
  /\ frame' = IF frame.ret = "monsters" THEN [NoFrame EXCEPT !.idx = 1] ELSE NoFrame
  /\ UNCHANGED <<level, map, tasks, fightInfo, nextId, loads, count>>

\* the experience awarded before the test of the player's death
FightLostAwardsExp ==
  /\ pc = "fight"
  /\ ~FightContinues
  /\ ~isAlive(player)
  /\ player' = [player EXCEPT !.exp = @ + ExpAward]
  /\ pc' = "gameOver"
  /\ frame' = NoFrame
  /\ UNCHANGED <<level, map, monsters, tasks, fightInfo, nextId, loads, count>>

\* the player died: Game::gameOver is entered and waits in getch()
FightLost ==
  /\ pc = "fight"
  /\ ~FightContinues
  /\ ~isAlive(player)
  /\ pc' = "gameOver"
  /\ frame' = NoFrame
  /\ UNCHANGED <<level, map, player, monsters, tasks, fightInfo, nextId, loads, count>>

\* the predicate of remove_if taking a monster at health 0 for alive
PrunedKeepsZero(ms) == SelectSeq(ms, LAMBDA e : e.health >= 0)

Pruned(ms) == SelectSeq(ms, isAlive)

\* the player survived: experience, pruning of the roster, the death line.
\* The death line reads the defender after the erase; when the defender was a
\* monster that read is of a destroyed object, which may go unnoticed or end
\* the process.
FightWon ==
  /\ pc = "fight"
  /\ ~FightContinues
  /\ isAlive(player)
  /\ player' = [player EXCEPT !.exp = @ + ExpAward]
  /\ monsters' = Pruned(monsters)
  /\ LET gone == frame.def # PlayerRef /\ ~isAlive(Entity(frame.def))
     IN  \/ /\ fightInfo' = [subject |-> IF frame.def = PlayerRef THEN "player" ELSE "monster",
                             alive |-> isAlive(Entity(frame.def)),
                             dangling |-> gone]
            /\ pc' = frame.ret
            /\ frame' = IF frame.ret = "monsters" THEN [NoFrame EXCEPT !.idx = 1]
                        ELSE NoFrame
         \/ /\ gone
            /\ pc' = "crashed"
            /\ frame' = NoFrame
            /\ UNCHANGED fightInfo
  /\ UNCHANGED <<level, map, tasks, nextId, loads, count>>

\* Game::gameOver after getch(): raise(SIGQUIT) runs exitCleanup, which exits
GameOverExit ==
  /\ pc = "gameOver"
  /\ pc' = "exited"
  /\ UNCHANGED <<level, map, player, monsters, tasks, frame, fightInfo, nextId,
                 loads, count>>

----------------------------------------------------------------------------
(* Game::run: level completion and render                                   *)

isLevelCompleteAtStart == player.pos = map.start

isLevelComplete == player.pos = map.end

isGameOver == ~isAlive(player)

LevelCheck ==
  /\ pc = "levelCheck"
  /\ IF isLevelComplete
     THEN loadLevel
     ELSE UNCHANGED <<level, map, player, monsters, nextId, loads>>
  /\ pc' = "render"
  /\ UNCHANGED <<tasks, frame, fightInfo, count>>

Render ==
  /\ pc = "render"
  /\ loads < MaxLoads
  /\ pc' = IF isGameOver THEN "returned" ELSE "input"
  /\ UNCHANGED <<level, map, player, monsters, tasks, frame, fightInfo, nextId,
                 loads, count>>

----------------------------------------------------------------------------
(* Detached path-finding threads                                            *)

ProcessAlive == pc \notin {"exited", "crashed", "returned"}

Remove(sq, i) == SubSeq(sq, 1, i - 1) \o SubSeq(sq, i + 1, Len(sq))

\* the thread body without its try/catch: the pathfinder's error ends the
\* process
TaskComputeUncaught(i) ==
  /\ ProcessAlive
  /\ i \in 1..Len(tasks)
  /\ tasks[i].phase = "spawned"
  /\ LET t == tasks[i]
     IN  \/ \E s \in (IF InRoster(t.orc) THEN {Entity(t.orc).pos} ELSE GridCells) :
                 LET p == AStar(map, s, player.pos)
                 IN  /\ tasks' = IF p = NoPath \/ p = <<>>
                                 THEN Remove(tasks, i)
                                 ELSE [tasks EXCEPT ![i] =
                                         [t EXCEPT !.phase = "computed", !.path = p]]
                     /\ pc' = IF p = NoPath THEN "crashed" ELSE pc
         \/ /\ ~InRoster(t.orc)
            /\ pc' = "crashed"
            /\ UNCHANGED tasks
  /\ UNCHANGED <<level, map, player, monsters, frame, fightInfo, nextId, loads, count>>

\* AStar(*map, entity.getPosition(), player.getPosition()).getPath(): the
\* thread reads the Orc, the player and the map when it runs.  An Orc already
\* destroyed yields an arbitrary position or ends the process.
TaskCompute(i) ==
  /\ ProcessAlive
  /\ i \in 1..Len(tasks)
  /\ tasks[i].phase = "spawned"
  /\ LET t == tasks[i]
     IN  \/ /\ \E s \in (IF InRoster(t.orc) THEN {Entity(t.orc).pos} ELSE GridCells) :
                 LET p == AStar(map, s, player.pos)
                 IN  tasks' = IF p = NoPath \/ p = <<>>
                              THEN Remove(tasks, i)
                              ELSE [tasks EXCEPT ![i] =
                                      [t EXCEPT !.phase = "computed", !.path = p]]
            /\ UNCHANGED pc
         \/ /\ ~InRoster(t.orc)
            /\ pc' = "crashed"
            /\ UNCHANGED tasks
  /\ UNCHANGED <<level, map, player, monsters, frame, fightInfo, nextId, loads, count>>

\* if (dynamic_cast<Orc *>(&orc) != nullptr && !path.empty()) orc.setPath(path);
\* the address of a reference is never null, so the write is always made.  A
\* write to a destroyed Orc lands in freed storage, in the storage of a
\* monster allocated since, or ends the process.
TaskWrite(i) ==
  /\ ProcessAlive
  /\ i \in 1..Len(tasks)
  /\ tasks[i].phase = "computed"
  /\ LET t == tasks[i]
     IN  IF InRoster(t.orc)
         THEN /\ monsters' = [monsters EXCEPT ![IndexOf(t.orc)].path = t.path]
              /\ tasks' = Remove(tasks, i)
              /\ UNCHANGED pc
         ELSE \/ /\ tasks' = Remove(tasks, i)
                 /\ UNCHANGED <<monsters, pc>>
              \/ /\ \E j \in 1..Len(monsters) :
                      /\ monsters[j].kind = "Orc"
                      /\ monsters' = [monsters EXCEPT ![j].path = t.path]
                 /\ tasks' = Remove(tasks, i)
                 /\ UNCHANGED pc
              \/ /\ pc' = "crashed"
                 /\ UNCHANGED <<monsters, tasks>>
  /\ UNCHANGED <<level, map, player, frame, fightInfo, nextId, loads, count>>

----------------------------------------------------------------------------
(* Specifications                                                           *)

Init ==
  /\ level = 0
  /\ map \in Maps
  /\ player = [pos |-> map.start, health |-> PlayerStats.health,
               attack |-> PlayerStats.attack, exp |-> 0]
  /\ monsters = <<>>
  /\ tasks = <<>>
  /\ pc = "init"
  /\ frame = NoFrame
  /\ fightInfo = NoInfo
  /\ nextId = 1
  /\ loads = 0
  /\ count = 0

Main ==
  \/ RunInit
  \/ HandleInputQuit
  \/ \E k \in Keys : HandleInputMove(k)
  \/ HandleInputAttack
  \/ HandleInputNone
  \/ MonsterStep
  \/ MonstersDone
  \/ CheckMove
  \/ \E hitA, hitD \in BOOLEAN : FightRound(hitA, hitD)
  \/ FightLost
  \/ FightWon
  \/ GameOverExit
  \/ LevelCheck
  \/ Render

Background == \E i \in 1..MaxTasks : TaskCompute(i) \/ TaskWrite(i)

Next == Main \/ Background

Spec == Init /\ [][Next]_vars

\* Game::fight on its own: the call is entered with any two alive combatants,
\* a monster attacking the player or the player attacking a monster, and
\* neither side misses for ever (each rand() % 3 != 0 test succeeds two times
\* in three).
InitFight ==
  /\ level = 0
  /\ map \in Maps
  /\ \E h \in 1..MaxHealth, a \in 1..MaxAttack :
       player = [pos |-> map.start, health |-> h, attack |-> a, exp |-> 0]
  /\ \E k \in Kinds, h \in 1..MaxHealth, a \in 1..MaxAttack :
       monsters = <<[NewMonster(1, k, map.start) EXCEPT !.health = h, !.attack = a]>>
  /\ tasks = <<>>
  /\ pc = "fight"
  /\ \/ frame = [NoFrame EXCEPT !.att = 1, !.def = PlayerRef, !.ret = "levelCheck"]
     \/ frame = [NoFrame EXCEPT !.att = PlayerRef, !.def = 1, !.ret = "monsters"]
  /\ fightInfo = NoInfo
  /\ nextId = 2
  /\ loads = 1
  /\ count = 0

NextFight ==
  \/ \E hitA, hitD \in BOOLEAN : FightRound(hitA, hitD)
  \/ FightLost
  \/ FightWon
  \/ GameOverExit

FightSpec ==
  /\ InitFight /\ [][NextFight]_vars
  /\ WF_vars(NextFight)
  /\ SF_vars(\E hitD \in BOOLEAN : FightRound(TRUE, hitD))
  /\ SF_vars(\E hitA \in BOOLEAN : FightRound(hitA, TRUE))

\* Game::initalizeMonsters on its own: called with any count on a roster
\* left by an earlier level
InitCount ==
  /\ level = 0
  /\ map = [free |-> {<<0,0>>, <<1,0>>}, start |-> <<0,0>>, end |-> <<1,0>>]
  /\ player = [pos |-> map.start, health |-> PlayerStats.health,
               attack |-> PlayerStats.attack, exp |-> 0]
  /\ \E old \in 0..MonsterCount :
       /\ monsters = initalizeMonsters(old, [i \in 1..old |-> map.start], 1)
       /\ nextId = old + 1
  /\ tasks = <<>>
  /\ pc = "count"
  /\ frame = NoFrame
  /\ fightInfo = NoInfo
  /\ loads = 1
  /\ count \in 0..MaxCount

InitalizeMonstersCall ==
  /\ pc = "count"
  /\ \E ps \in [1..count -> map.free] :
       monsters' = initalizeMonsters(count, ps, nextId)
  /\ nextId' = nextId + count
  /\ pc' = "counted"
  /\ UNCHANGED <<level, map, player, tasks, frame, fightInfo, loads, count>>

CountSpec == InitCount /\ [][InitalizeMonstersCall]_vars

\* Game::handleInput and Game::updatePositions on their own: one pass over
\* a corridor level on which one monster is left, of any kind and anywhere
\* in the corridor, the player anywhere too; an Orc holds no pursuit path or
\* what is left of a route computed earlier
InitPursuit ==
  /\ level = 0
  /\ map = Corridor
  /\ \E q \in map.free, n \in 0..2 :
       player = [pos |-> q, health |-> PlayerStats.health,
                 attack |-> PlayerStats.attack, exp |-> n * ExpAward]
  /\ \E k \in Kinds, p \in map.free :
       \E r \in {<<>>} \cup (IF k = "Orc" THEN {AStar(map, p, g) : g \in map.free} ELSE {}) :
         monsters = <<[NewMonster(1, k, p) EXCEPT !.path = r]>>
  /\ tasks = <<>>
  /\ pc = "input"
  /\ frame = NoFrame
  /\ fightInfo = NoInfo
  /\ nextId = 2
  /\ loads = 1
  /\ count = 0

NextPursuit ==
  \/ \E k \in Keys : HandleInputMove(k)
  \/ HandleInputAttack
  \/ HandleInputNone
  \/ MonsterStep
  \/ MonstersDone
  \/ CheckMove
  \/ \E hitA, hitD \in BOOLEAN : FightRound(hitA, hitD)
  \/ FightLost
  \/ FightWon
  \/ GameOverExit
  \/ Background

PursuitSpec == InitPursuit /\ [][NextPursuit]_vars

----------------------------------------------------------------------------
(* Properties                                                               *)

\* a thread's setPath call: a computed task leaves the task list
Writes(i) ==
  /\ i \in 1..Len(tasks)
  /\ tasks[i].phase = "computed"
  /\ tasks' = Remove(tasks, i)

\* C1: a path computed by a background task is never written to an Orc that
\* is no longer in the monster roster.
C1_NoWriteToRemovedOrc ==
  [][\A i \in 1..MaxTasks : Writes(i) => InRoster(tasks[i].orc)]_vars

PosOfNow(f) == IF f.ent = PlayerRef THEN player.pos ELSE monsters[f.idx].pos

\* C2: updateEntityPosition records the position the entity had on entry,
\* and on return the entity is at the moved cell if that cell is free on the
\* map and at its position on entry otherwise, for the player and for every
\* monster.
C2_RevertOnCollision ==
  [][/\ (pc # "uep" /\ pc' = "uep") => frame'.oldPos = PosOfNow(frame')
     /\ (pc = "uep" /\ frame' # frame) =>
           LET moved == PosOfNow(frame)
               after == IF frame.ent = PlayerRef THEN player'.pos
                        ELSE monsters'[frame.idx].pos
           IN  after = IF moved \in map.free THEN moved ELSE frame.oldPos]_vars

\* a monster has been moved onto a cell that is not free and is about to be
\* put back
C2_Witness ==
  /\ pc = "uep"
  /\ frame.ent # PlayerRef
  /\ monsters[frame.idx].pos \notin map.free
  /\ monsters[frame.idx].pos # frame.oldPos

\* C3: whenever fight leaves its exchange loop, at least one of the two
\* combatants has health <= 0.
C3_LoopLeftWithADeath ==
  [][(pc = "fight" /\ frame' # frame) =>
        (Entity(frame.att).health <= 0 \/ Entity(frame.def).health <= 0)]_vars

\* the exchange loop has been left with the player dead
C3_Witness == pc = "gameOver" /\ player.health <= 0

HealthOf(ref) == Entity(ref).health

\* C4: a fight between two alive combatants is eventually over when no side
\* misses for ever, and every round of it that contains a hit strictly
\* lowers the health of at least one side.
C4_FightTerminates ==
  /\ (pc = "fight") ~> (pc # "fight")
  /\ [][\A hitA, hitD \in BOOLEAN :
          (FightRound(hitA, hitD) /\ (hitA \/ hitD)) =>
             \/ HealthOf(frame.att)' < HealthOf(frame.att)
             \/ HealthOf(frame.def)' < HealthOf(frame.def)]_vars

\* a fight that is over after a round in which the player was hit and
\* survived
C4_Witness ==
  /\ pc \in {"monsters", "levelCheck"}
  /\ fightInfo.subject # "nobody"
  /\ player.health = 1
  /\ player.exp = ExpAward

\* the roster without the pursuit paths
Bodies(ms) == [i \in 1..Len(ms) |-> [ms[i] EXCEPT !.path = <<>>]]

\* C5: a fight that ends with the player's health at zero or below enters
\* game over, and from then on the player, the roster (members, positions,
\* health), the experience, the map and the level are never changed again;
\* once the process has exited nothing happens at all.
C5_GameOverIsTerminal ==
  [][/\ (pc = "fight" /\ frame' # frame /\ player.health <= 0) => pc' = "gameOver"
     /\ pc = "gameOver" =>
           /\ pc' \in {"gameOver", "exited", "crashed"}
           /\ player' = player
           /\ Bodies(monsters') = Bodies(monsters)
           /\ <<map, level, loads, frame>>' = <<map, level, loads, frame>>
     /\ pc # "exited"]_vars

\* game over was entered while monsters of the roster were still waiting for
\* their move
C5_Witness == pc = "gameOver" /\ player.health <= 0 /\ Len(monsters) > 1

\* C6: render is only reached through the level-completion check; when the
\* check finds the alive player on the end cell the level is loaded before
\* render (a map is generated, the player stands on its start cell and no
\* monster of the old roster is left), and otherwise map, player and roster
\* are left as they are.
C6_LevelCompletion ==
  [][/\ (pc' = "render" /\ pc # "render") => pc = "levelCheck"
     /\ (pc = "levelCheck" /\ pc' = "render") =>
           /\ player.health > 0
           /\ IF player.pos = map.end
              THEN /\ loads' = loads + 1
                   /\ map' \in Maps
                   /\ player'.pos = map'.start
                   /\ RosterIds' \cap RosterIds = {}
                   /\ Len(monsters') = LevelMonsterCount(level)
              ELSE <<map, player, monsters, loads>>' = <<map, player, monsters, loads>>]_vars

\* the level was completed and the next one loaded, about to be rendered
C6_Witness ==
  /\ pc = "render"
  /\ loads = 2
  /\ player.pos = map.start
  /\ \A i \in 1..Len(monsters) : monsters[i].id > LevelMonsterCount(level)

\* C7: every load of a level triggered by level completion leaves level
\* strictly greater than it was.
C7_LevelAdvances ==
  [][(pc = "levelCheck" /\ loads' = loads + 1) => level' > level]_vars

KindAt(c, i) ==
  IF i <= c \div 2 THEN "Goblin"
  ELSE IF i <= c \div 2 + c \div 3 THEN "Orc"
  ELSE IF i <= c \div 2 + c \div 3 + c \div 6 THEN "Troll"
  ELSE "Dragon"

Census(k) == Cardinality({i \in 1..Len(monsters) : monsters[i].kind = k})

\* C8: after initalizeMonsters(count) the roster holds exactly count monsters,
\* all of them new: count/2 Goblins, then count/3 Orcs, then count/6 Trolls,
\* then the rest, never negative, Dragons; 12 gives 6, 4, 2 and 0.
C8_RosterComposition ==
  pc = "counted" =>
    /\ Len(monsters) = count
    /\ count - count \div 2 - count \div 3 - count \div 6 >= 0
    /\ \A i \in 1..Len(monsters) :
         /\ monsters[i].kind = KindAt(count, i)
         /\ monsters[i].id = nextId - count + i - 1
    /\ count = 12 => <<Census("Goblin"), Census("Orc"), Census("Troll"),
                       Census("Dragon")>> = <<6, 4, 2, 0>>

\* initalizeMonsters(12) has replaced a roster that was not empty
C8_Witness ==
  /\ pc = "counted"
  /\ count = 12
  /\ Len(monsters) = 12
  /\ monsters[1].id > 1
  /\ Census("Dragon") = 0

\* C9: once a more recent path request has been issued for an Orc, the
\* result of an earlier request is never applied to it.
C9_NoStaleWrite ==
  [][\A i \in 1..MaxTasks :
       (Writes(i) /\ InRoster(tasks[i].orc)) => ~tasks[i].stale]_vars

\* C10: the route a background task computes is the route from the Orc's
\* position to the player's position as they were when the request was made.
C10_RouteFromSnapshot ==
  [][\A i \in 1..MaxTasks :
       (/\ i <= Len(tasks)
        /\ Len(tasks') = Len(tasks)
        /\ tasks[i].phase = "spawned"
        /\ tasks'[i].phase = "computed") =>
          tasks'[i].path = AStar(map, tasks[i].snapStart, tasks[i].snapGoal)]_vars

\* the main thread stands between two operations of the turn loop, or in
\* Game::gameOver
Observable == pc \in {"input", "monsters", "levelCheck", "render", "gameOver"}

\* C11: in every state observable between operations of the turn loop, and
\* in the state handed to game over, the health of the player and of every
\* monster of the roster is >= 0.
C11_HealthNeverNegative ==
  Observable =>
    /\ player.health >= 0
    /\ \A i \in 1..Len(monsters) : monsters[i].health >= 0

\* C12: with Map::getStart and Map::randomFreePosition returning free cells,
\* at the end of every operation of the turn loop the player and every
\* monster of the roster stand on a cell the current map reports free, after
\* any sequence of moves, fights and level loads.
C12_PositionsFree ==
  (Observable \/ pc = "fight") =>
    /\ isPositionFree(map, player.pos)
    /\ \A i \in 1..Len(monsters) : isPositionFree(map, monsters[i].pos)

\* the second level has been loaded after the player walked to the end cell
\* and won a fight on the way
C12_Witness ==
  /\ pc = "render"
  /\ loads = 2
  /\ player.exp >= ExpAward
  /\ Len(monsters) = LevelMonsterCount(level)

\* C13: a fight that ends with the player alive raises the player's
\* experience by exactly 10, a fight in which the player dies awards nothing,
\* and no other step of the program changes the player's experience.
C13_ExperienceAward ==
  [][IF pc = "fight" /\ frame' # frame /\ player.health > 0
     THEN player'.exp = player.exp + 10
     ELSE player'.exp = player.exp]_vars

\* the player won one fight and died in a later one
C13_Witness == pc = "gameOver" /\ player.health <= 0 /\ player.exp = 10

\* C14: whenever the turn loop is running outside fight the roster holds no
\* monster of health <= 0, and the pruning of a fight the player survived
\* removes exactly the monsters of health <= 0: every alive monster stays,
\* unchanged, and the alive monsters keep their relative order.
C14_RosterPruned ==
  /\ [](pc \in {"input", "monsters", "uep", "levelCheck", "render"} =>
          \A i \in 1..Len(monsters) : monsters[i].health > 0)
  /\ [][(pc = "fight" /\ frame' # frame /\ player.health > 0) =>
          LET alive  == {i \in 1..Len(monsters) : monsters[i].health > 0}
              now(i) == CHOOSE j \in 1..Len(monsters') : monsters'[j] = monsters[i]
          IN  /\ Len(monsters') = Cardinality(alive)
              /\ \A i \in alive : \E j \in 1..Len(monsters') : monsters'[j] = monsters[i]
              /\ \A i, k \in alive : i < k => now(i) < now(k)]_vars

\* a fight has been won on the first level and its dead monster pruned from
\* between the others
C14_Witness ==
  /\ pc \in {"monsters", "levelCheck"}
  /\ loads = 1
  /\ player.exp = ExpAward
  /\ Len(monsters) = MonsterCount - 1
  /\ {monsters[i].kind : i \in 1..Len(monsters)} = {"Goblin", "Dragon"}

\* C15: updateEntityPosition starts a background path computation if and only
\* if the entity is an Orc and its pursuit path is empty or its Euclidean
\* distance to the player is strictly below 8; it starts none for the player
\* or for a Goblin, Troll or Dragon, at most one per call, and nothing else
\* starts one.
C15_PathRequest ==
  [][/\ (pc # "uep" /\ pc' = "uep") =>
          IF frame'.ent = PlayerRef THEN tasks' = tasks
          ELSE LET m == monsters[frame'.idx]
               IN  IF m.kind = "Orc"
                      /\ (m.path = <<>> \/ Dist2(m.pos, player.pos) < 8 * 8)
                   THEN /\ Len(tasks') = Len(tasks) + 1
                        /\ tasks'[Len(tasks')].orc = m.id
                        /\ tasks'[Len(tasks')].phase = "spawned"
                   ELSE tasks' = tasks
     /\ Len(tasks') > Len(tasks) =>
          (pc # "uep" /\ pc' = "uep" /\ frame'.ent # PlayerRef)]_vars

\* an Orc holding a path has been moved from a cell 8 or more away from the
\* player and no computation was started
C15_Witness ==
  /\ pc = "uep"
  /\ frame.ent # PlayerRef
  /\ monsters[frame.idx].kind = "Orc"
  /\ monsters[frame.idx].path # <<>>
  /\ Dist2(frame.oldPos, player.pos) >= 8 * 8
  /\ tasks = <<>>

\* C16: when a background path computation finds no route (the pathfinder's
\* error or an empty route) the task ends and nothing else changes: the
\* Orc's pursuit path, the roster, the player, the map and the main thread's
\* position are as they were; and the main thread never waits for a task:
\* while tasks are running it can always take its next step.
C16_NoRouteIsSilent ==
  /\ [][\A i \in 1..MaxTasks :
          (i <= Len(tasks) /\ tasks[i].phase = "spawned" /\ tasks' = Remove(tasks, i)) =>
             /\ InRoster(tasks[i].orc) =>
                  AStar(map, Entity(tasks[i].orc).pos, player.pos) \in {NoPath, <<>>}
             /\ <<level, map, player, monsters, pc, frame, fightInfo, nextId, loads>>'
                  = <<level, map, player, monsters, pc, frame, fightInfo, nextId, loads>>]_vars
  /\ []((/\ tasks # <<>>
         /\ Len(tasks) < MaxTasks
         /\ pc \in {"input", "monsters", "uep", "fight", "levelCheck", "gameOver"})
           => ENABLED Main)

\* an Orc holding a path has stepped onto the player's cell and the
\* computation started for that step has ended without a route: the path is
\* still there
C16_Witness ==
  /\ pc = "fight"
  /\ frame.att # PlayerRef
  /\ Entity(frame.att).kind = "Orc"
  /\ Entity(frame.att).path # <<>>
  /\ tasks = <<>>

\* C17: in every loop iteration in which the game is not over updatePositions
\* updates every monster of the roster, also when a fight is triggered during
\* the pass: a pass that ends through a fight the player survives has no
\* monster left behind the one that fought.
C17_EveryMonsterUpdated ==
  [][(pc = "fight" /\ pc' = "levelCheck") =>
        IndexOf(frame.att) = Len(monsters)]_vars

\* C18: within fight a combatant whose health is already <= 0 never inflicts
\* damage: in a round in which the attacker's hit brings the defender to
\* zero or below, the attacker's health is left as it was.
C18_DeadNeverHits ==
  [][(pc = "fight" /\ pc' = "fight" /\ HealthOf(frame.def) > 0
        /\ HealthOf(frame.def)' <= 0) =>
          HealthOf(frame.att)' = HealthOf(frame.att)]_vars

\* C19: fight never reads or writes a monster after it has been removed from
\* the roster: when fight builds its death line from the defender, after the
\* pruning, the defender is the player or still a member of the roster.
C19_NoAccessAfterRemoval ==
  [][(pc = "fight" /\ frame' # frame /\ player.health > 0) =>
        (frame.def = PlayerRef \/ frame.def \in RosterIds')]_vars

\* C20: whenever fight returns with the player alive, the death line of the
\* fight log names a combatant whose health reached zero in that fight, the
\* dead monster, whichever side was the attacker.
C20_DeathLineNamesTheDead ==
  [][(pc = "fight" /\ frame' # frame /\ player.health > 0 /\ pc' # "crashed") =>
        /\ fightInfo'.subject = "monster"
        /\ ~fightInfo'.alive]_vars

====
